---- MODULE Spec2Model ----
(***************************************************************************)
(* Model of the `acpi` crate's entry point parse_acpi (src/src/lib.rs) and *)
(* of the AcpiHandler it drives.  One parse_acpi call is a walk through    *)
(* the statements of its body; the handler keeps the table of live         *)
(* mappings.  Rsdp::validate and Rsdp::make_testcase live in rsdp.rs,      *)
(* which lib.rs only declares (`mod rsdp;`): they are modelled from the    *)
(* specification's sections 3 and 4.1.                                     *)
(***************************************************************************)
EXTENDS Integers, Sequences, FiniteSets, TLC

VARIABLES
    pc,             \* position inside parse_acpi: "idle" before a call, "done" after it
    calls,          \* number of parse_acpi calls started so far
    rsdp_address,   \* the argument of the current call
    memory,         \* the Rsdp that lies at rsdp_address in physical memory
    handler,        \* the host's mapping table: live pointers and the next fresh one
    rsdp_mapping,   \* the local `rsdp_mapping` of parse_acpi (NoMapping: not bound / moved out)
    result,         \* the value the call returned ("none" while it runs)
    log             \* handler operations and reads of mapped memory made by the current call

vars == <<pc, calls, rsdp_address, memory, handler, rsdp_mapping, result, log>>

(* ------------------------------ bounds -------------------------------- *)

\* parse_acpi calls made one after another on the same handler
MaxCalls == 2
\* physical addresses an RSDP is served at: 0 .. MaxAddr
MaxAddr == 1
\* a changed byte is the old one plus 1 .. MaxDelta, plus 128 or plus 255 (mod 256)
MaxDelta == 3

(* --------------------------- program constants ------------------------ *)

RSDP_ADDRESS == 0
RSDT_ADDRESS == 1

\* b"RSD PTR "
RSDP_SIGNATURE == <<82, 83, 68, 32, 80, 84, 82, 32>>
\* b"RUST  "
OEM_ID == <<82, 85, 83, 84, 32, 32>>

\* enum AcpiError
AcpiError == {"RsdpIncorrectSignature", "RsdpInvalidOemId", "RsdpInvalidChecksum"}

\* Result<(), AcpiError>: "Ok" stands for Ok(()), an AcpiError e for Err(e)
Results == {"Ok"} \cup AcpiError

(* ------------------------- Rsdp (rsdp.rs, from the spec) --------------- *)

\* mem::size_of::<Rsdp>(): 8 + 1 + 6 + 1 + 4 + 4 + 8 + 1 + 3
RsdpSize == 36
\* the part of the structure the first checksum covers
RsdpV1Size == 20

\* n as k little-endian bytes
RECURSIVE LittleEndian(_, _)
LittleEndian(n, k) ==
    IF k = 0 THEN <<>> ELSE <<n % 256>> \o LittleEndian(n \div 256, k - 1)

\* the packed in-memory layout of an Rsdp
RsdpBytes(r) ==
    r.signature \o <<r.checksum>> \o r.oem_id \o <<r.revision>>
        \o LittleEndian(r.rsdt_address, 4) \o LittleEndian(r.length, 4)
        \o LittleEndian(r.xsdt_address, 8) \o <<r.ext_checksum>> \o r.reserved

\* wrapping u8 sum of the first n bytes
RECURSIVE ByteSum(_, _)
ByteSum(bytes, n) == IF n = 0 THEN 0 ELSE (ByteSum(bytes, n - 1) + bytes[n]) % 256

\* the byte that makes a region whose other bytes sum to s sum to zero
ChecksumFor(s) == (256 - s) % 256

\* OEM id policy: every byte is 7-bit
OemIdValid(oem_id) == \A i \in 1..Len(oem_id) : oem_id[i] < 128

\* Option<u8>: None is <<>>, Some(v) is <<v>>
None == <<>>
Some(v) == <<v>>

\* Rsdp::make_testcase: a checksum given as None is computed so that it validates
make_testcase(signature, checksum, oem_id, revision, rsdt_address, length, xsdt_address, ext_checksum, reserved) ==
    LET blank == [signature |-> signature, checksum |-> 0, oem_id |-> oem_id,
                  revision |-> revision, rsdt_address |-> rsdt_address,
                  length |-> length, xsdt_address |-> xsdt_address,
                  ext_checksum |-> 0, reserved |-> reserved]
        c     == IF checksum = None
                   THEN ChecksumFor(ByteSum(RsdpBytes(blank), RsdpV1Size))
                   ELSE checksum[1]
        first == [blank EXCEPT !.checksum = c]
        e     == IF ext_checksum = None
                   THEN ChecksumFor(ByteSum(RsdpBytes(first), RsdpSize))
                   ELSE ext_checksum[1]
    IN  [first EXCEPT !.ext_checksum = e]

\* Rsdp::validate: signature, then OEM id, then the checksum(s) the revision asks for
validate(r) ==
    IF r.signature # RSDP_SIGNATURE THEN "RsdpIncorrectSignature"
    ELSE IF ~OemIdValid(r.oem_id) THEN "RsdpInvalidOemId"
    ELSE IF ByteSum(RsdpBytes(r), RsdpV1Size) # 0 THEN "RsdpInvalidChecksum"
    ELSE IF r.revision >= 2 /\ ByteSum(RsdpBytes(r), RsdpSize) # 0 THEN "RsdpInvalidChecksum"
    ELSE "Ok"

\* what a successful validation yields: the address of the root table, the XSDT
\* for revision >= 2 when its address is set, the RSDT otherwise
root_table_address(r) ==
    IF r.revision >= 2 /\ r.xsdt_address # 0 THEN r.xsdt_address ELSE r.rsdt_address

(* ------------------------------ inputs --------------------------------- *)

\* b"XSD PTR ": the signature with byte 0 changed from 'R' to 'X'
BadSignature == <<88>> \o Tail(RSDP_SIGNATURE)
\* b"TEST  "
TestOemId == <<84, 69, 83, 84, 32, 32>>
\* an OEM id holding a byte that is not 7-bit
BadOemId == <<255>> \o Tail(OEM_ID)

\* the Rsdp TestHandler serves at RSDP_ADDRESS
TestRsdp ==
    make_testcase(RSDP_SIGNATURE, None, OEM_ID, 0, RSDT_ADDRESS, 0, 0, None, <<0, 0, 0>>)

\* the structures the host may hold at rsdp_address
Rsdps ==
    { make_testcase(sig, ck, oem, rev, rsdt, IF rev = 0 THEN 0 ELSE RsdpSize, xsdt, eck,
                    <<0, 0, 0>>) :
        sig \in {RSDP_SIGNATURE, BadSignature},
        ck \in {None, Some(0)},
        oem \in {OEM_ID, TestOemId, BadOemId},
        rev \in {0, 2, 3},
        rsdt \in {RSDT_ADDRESS, 4096},
        xsdt \in {0, 8192},
        eck \in {None, Some(1)} }

Addresses == 0..MaxAddr

\* physical memory away from rsdp_address holds zeroes
ZeroRsdp ==
    make_testcase([i \in 1..8 |-> 0], Some(0), [i \in 1..6 |-> 0], 0, 0, 0, 0, Some(0),
                  <<0, 0, 0>>)


(* ------------------------------ handler -------------------------------- *)

\* struct PhysicalMapping<T>; NoMapping stands for an unbound or moved-out local
NoMapping == [physical_start |-> -1, virtual_start |-> 0, mapped_length |-> 0]

\* AcpiHandler::map_physical_region::<T>: a fresh virtual window over physical_address
map_physical_region(h, physical_address, size) ==
    [handler |-> [live |-> h.live \cup {h.next}, next |-> h.next + 1],
     mapping |-> [physical_start |-> physical_address,
                  virtual_start  |-> h.next,
                  mapped_length  |-> size]]

\* AcpiHandler::unmap_physical_region: the window of `region` is gone
unmap_physical_region(h, region) ==
    [h EXCEPT !.live = @ \ {region.virtual_start}]

\* what lies at a physical address
PhysicalMemory(a, addr, mem) == IF a = addr THEN mem ELSE ZeroRsdp

\* Deref for PhysicalMapping<Rsdp>, then validate: the outcomes the read can have.
\* Reading through a window that was unmapped is undefined: any outcome.
DerefValidate(h, mapping, addr, mem) ==
    IF mapping.virtual_start \in h.live
        THEN {validate(PhysicalMemory(mapping.physical_start, addr, mem))}
        ELSE Results

\* one entry of the log: a handler operation or a read made by parse_acpi
LogEntry(op, mapping, h, outcome) ==
    [op |-> op, ty |-> "Rsdp",
     physical_start |-> mapping.physical_start,
     virtual_start  |-> mapping.virtual_start,
     live           |-> mapping.virtual_start \in h.live,
     outcome        |-> outcome]

(* ------------------------------ parse_acpi ----------------------------- *)

Init ==
    /\ pc = "idle"
    /\ calls = 0
    /\ rsdp_address = RSDP_ADDRESS
    /\ memory = TestRsdp
    /\ handler = [live |-> {}, next |-> 1]
    /\ rsdp_mapping = NoMapping
    /\ result = "none"
    /\ log = <<>>

\* the caller invokes parse_acpi(handler, rsdp_address)
Call ==
    /\ pc \in {"idle", "done"}
    /\ calls < MaxCalls
    /\ \E a \in Addresses, r \in Rsdps :
        /\ rsdp_address' = a
        /\ memory' = r
    /\ calls' = calls + 1
    /\ pc' = "map_rsdp"
    /\ rsdp_mapping' = NoMapping
    /\ result' = "none"
    /\ log' = <<>>
    /\ UNCHANGED handler

\* handler.map_physical_region::<Rsdp>(a), bound to rsdp_mapping
MapRsdpAt(a) ==
    /\ pc = "map_rsdp"
    /\ LET m == map_physical_region(handler, a, RsdpSize) IN
        /\ handler' = m.handler
        /\ rsdp_mapping' = m.mapping
        /\ log' = Append(log, LogEntry("map", m.mapping, m.handler, "none"))
    /\ pc' = "validate"
    /\ UNCHANGED <<calls, rsdp_address, memory, result>>

\* a parse_acpi that maps the RSDP a second time while the first window is open
MapRsdpTwice ==
    /\ pc = "map_rsdp"
    /\ LET m1 == map_physical_region(handler, rsdp_address, RsdpSize)
           m2 == map_physical_region(m1.handler, rsdp_address, RsdpSize)
       IN
        /\ handler' = m2.handler
        /\ rsdp_mapping' = m2.mapping
        /\ log' = log \o <<LogEntry("map", m1.mapping, m1.handler, "none"),
                           LogEntry("map", m2.mapping, m2.handler, "none")>>
    /\ pc' = "validate"
    /\ UNCHANGED <<calls, rsdp_address, memory, result>>

\* a parse_acpi that maps the constant RSDP_ADDRESS, whatever its argument
MapRsdpConstantAddress == MapRsdpAt(RSDP_ADDRESS)

\* let rsdp_mapping = handler.map_physical_region::<Rsdp>(rsdp_address);
MapRsdp == MapRsdpAt(rsdp_address)

\* a parse_acpi that drops the result of validate instead of applying `?`
ValidateIgnoringError ==
    /\ pc = "validate"
    /\ \E res \in DerefValidate(handler, rsdp_mapping, rsdp_address, memory) :
        log' = Append(log, LogEntry("validate", rsdp_mapping, handler, res))
    /\ pc' = "unmap_rsdp"
    /\ UNCHANGED <<calls, rsdp_address, memory, handler, result, rsdp_mapping>>

\* a parse_acpi that unmaps the RSDP before it validates it
ValidateAfterUnmap ==
    /\ pc = "validate"
    /\ LET h == unmap_physical_region(handler, rsdp_mapping) IN
        /\ handler' = h
        /\ \E res \in DerefValidate(h, rsdp_mapping, rsdp_address, memory) :
            /\ log' = log \o <<LogEntry("unmap", rsdp_mapping, handler, "none"),
                               LogEntry("validate", rsdp_mapping, h, res)>>
            /\ IF res = "Ok"
                 THEN pc' = "return_ok" /\ UNCHANGED result
                 ELSE pc' = "done" /\ result' = res
    /\ rsdp_mapping' = NoMapping
    /\ UNCHANGED <<calls, rsdp_address, memory>>

\* a parse_acpi that tries the validation again when it fails
ValidateRetrying ==
    /\ pc = "validate"
    /\ \E res \in DerefValidate(handler, rsdp_mapping, rsdp_address, memory) :
        IF res = "Ok"
          THEN /\ log' = Append(log, LogEntry("validate", rsdp_mapping, handler, res))
               /\ pc' = "unmap_rsdp"
          ELSE UNCHANGED <<log, pc>>
    /\ UNCHANGED <<calls, rsdp_address, memory, handler, result, rsdp_mapping>>

\* a parse_acpi that remembers, across calls, that it validated once and does
\* not validate again
ValidateFirstCallOnly ==
    /\ pc = "validate"
    /\ IF calls > 1
         THEN /\ pc' = "unmap_rsdp"
              /\ UNCHANGED <<log, result, rsdp_mapping>>
         ELSE \E res \in DerefValidate(handler, rsdp_mapping, rsdp_address, memory) :
                /\ log' = Append(log, LogEntry("validate", rsdp_mapping, handler, res))
                /\ IF res = "Ok"
                     THEN /\ pc' = "unmap_rsdp"
                          /\ UNCHANGED <<result, rsdp_mapping>>
                     ELSE /\ pc' = "done"
                          /\ result' = res
                          /\ rsdp_mapping' = NoMapping
    /\ UNCHANGED <<calls, rsdp_address, memory, handler>>

\* (*rsdp_mapping).validate()?;
Validate ==
    /\ pc = "validate"
    /\ \E res \in DerefValidate(handler, rsdp_mapping, rsdp_address, memory) :
        /\ log' = Append(log, LogEntry("validate", rsdp_mapping, handler, res))
        /\ IF res = "Ok"
             THEN /\ pc' = "unmap_rsdp"
                  /\ UNCHANGED <<result, rsdp_mapping>>
             ELSE \* `?` returns Err(e). rsdp_mapping goes out of scope, and
                  \* PhysicalMapping has no Drop: nothing is unmapped
                  /\ pc' = "done"
                  /\ result' = res
                  /\ rsdp_mapping' = NoMapping
    /\ UNCHANGED <<calls, rsdp_address, memory, handler>>

\* a parse_acpi that unmaps a PhysicalMapping it rebuilt, with the constant
\* RSDP_ADDRESS as its physical_start
UnmapRsdpRebuilt ==
    /\ pc = "unmap_rsdp"
    /\ LET region == [rsdp_mapping EXCEPT !.physical_start = RSDP_ADDRESS] IN
        /\ log' = Append(log, LogEntry("unmap", region, handler, "none"))
        /\ handler' = unmap_physical_region(handler, region)
    /\ rsdp_mapping' = NoMapping
    /\ pc' = "return_ok"
    /\ UNCHANGED <<calls, rsdp_address, memory, result>>

\* a parse_acpi that hands the mapping to unmap_physical_region twice
UnmapRsdpTwice ==
    /\ pc = "unmap_rsdp"
    /\ LET h == unmap_physical_region(handler, rsdp_mapping) IN
        /\ log' = log \o <<LogEntry("unmap", rsdp_mapping, handler, "none"),
                           LogEntry("unmap", rsdp_mapping, h, "none")>>
        /\ handler' = unmap_physical_region(h, rsdp_mapping)
    /\ rsdp_mapping' = NoMapping
    /\ pc' = "return_ok"
    /\ UNCHANGED <<calls, rsdp_address, memory, result>>

\* handler.unmap_physical_region(rsdp_mapping);
UnmapRsdp ==
    /\ pc = "unmap_rsdp"
    /\ log' = Append(log, LogEntry("unmap", rsdp_mapping, handler, "none"))
    /\ handler' = unmap_physical_region(handler, rsdp_mapping)
    /\ rsdp_mapping' = NoMapping
    /\ pc' = "return_ok"
    /\ UNCHANGED <<calls, rsdp_address, memory, result>>

\* Ok(())
ReturnOk ==
    /\ pc = "return_ok"
    /\ result' = "Ok"
    /\ pc' = "done"
    /\ UNCHANGED <<calls, rsdp_address, memory, handler, rsdp_mapping, log>>

Next == Call \/ MapRsdp \/ Validate \/ UnmapRsdp \/ ReturnOk

Spec == Init /\ [][Next]_vars

\* parse_acpi is straight-line code: each statement is executed once control
\* reaches it, the handler calls included (they are assumed to return)
FairSpec ==
    Spec /\ WF_vars(MapRsdp) /\ WF_vars(Validate) /\ WF_vars(UnmapRsdp) /\ WF_vars(ReturnOk)

(* ----------------------- single changed bytes -------------------------- *)

\* the number whose little-endian bytes are `bytes`
RECURSIVE FromLittleEndian(_)
FromLittleEndian(bytes) ==
    IF bytes = <<>> THEN 0 ELSE bytes[1] + 256 * FromLittleEndian(Tail(bytes))

\* the Rsdp a mapped region of RsdpSize bytes is read as
RsdpFromBytes(b) ==
    [signature    |-> SubSeq(b, 1, 8),
     checksum     |-> b[9],
     oem_id       |-> SubSeq(b, 10, 15),
     revision     |-> b[16],
     rsdt_address |-> FromLittleEndian(SubSeq(b, 17, 20)),
     length       |-> FromLittleEndian(SubSeq(b, 21, 24)),
     xsdt_address |-> FromLittleEndian(SubSeq(b, 25, 32)),
     ext_checksum |-> b[33],
     reserved     |-> SubSeq(b, 34, 36)]

\* position of the checksum byte in the structure
ChecksumPosition == 9

\* the well-formed revision-0 structures among the inputs
WellFormedRev0Rsdps ==
    {r \in Rsdps : r.revision = 0 /\ validate(r) = "Ok"}

\* the values one changed byte takes; the top byte of rsdt_address stays below
\* 128, so that the address fits the model's integers
ChangedValues(old, p) ==
    {v \in {(old + d) % 256 : d \in (1..MaxDelta) \cup {128, 255}} :
        p = RsdpV1Size => v < 128}

\* r with the byte at position p set to v
ChangeByte(r, p, v) == RsdpFromBytes([RsdpBytes(r) EXCEPT ![p] = v])

\* every well-formed revision-0 structure with one of its first 20 bytes, other
\* than the checksum byte, changed
ChangedRsdps ==
    UNION { { ChangeByte(r, p, v) : v \in ChangedValues(RsdpBytes(r)[p], p) } :
              r \in WellFormedRev0Rsdps, p \in (1..RsdpV1Size) \ {ChecksumPosition} }

\* the host holds a well-formed or a changed structure; parse_acpi is not yet called
ChangedInit ==
    /\ pc = "idle"
    /\ calls = 0
    /\ rsdp_address = RSDP_ADDRESS
    /\ memory \in WellFormedRev0Rsdps \cup ChangedRsdps
    /\ handler = [live |-> {}, next |-> 1]
    /\ rsdp_mapping = NoMapping
    /\ result = "none"
    /\ log = <<>>

\* the caller invokes parse_acpi(handler, rsdp_address) on the memory as it is
CallOnMemory ==
    /\ pc = "idle"
    /\ calls < MaxCalls
    /\ rsdp_address' \in Addresses
    /\ calls' = calls + 1
    /\ pc' = "map_rsdp"
    /\ rsdp_mapping' = NoMapping
    /\ result' = "none"
    /\ log' = <<>>
    /\ UNCHANGED <<memory, handler>>

ChangedNext == CallOnMemory \/ MapRsdp \/ Validate \/ UnmapRsdp \/ ReturnOk

\* one parse_acpi call on each structure of ChangedInit
ChangedSpec == ChangedInit /\ [][ChangedNext]_vars

(* ------------------- repeated calls on the same memory ----------------- *)

\* the host holds some structure at the address it will pass; parse_acpi is not yet called
RepeatInit ==
    /\ pc = "idle"
    /\ calls = 0
    /\ rsdp_address = RSDP_ADDRESS
    /\ memory \in Rsdps
    /\ handler = [live |-> {}, next |-> 1]
    /\ rsdp_mapping = NoMapping
    /\ result = "none"
    /\ log = <<>>

\* the caller invokes parse_acpi again, on the same handler and the same memory;
\* the log is kept, with an entry for the address and the value of the call
\* that has returned
CallAgain ==
    /\ pc = "done"
    /\ calls < MaxCalls
    /\ rsdp_address' \in Addresses
    /\ calls' = calls + 1
    /\ pc' = "map_rsdp"
    /\ rsdp_mapping' = NoMapping
    /\ result' = "none"
    /\ log' = Append(log, LogEntry("return", [NoMapping EXCEPT !.physical_start = rsdp_address],
                                   handler, result))
    /\ UNCHANGED <<memory, handler>>

RepeatNext == CallOnMemory \/ CallAgain \/ MapRsdp \/ Validate \/ UnmapRsdp \/ ReturnOk

\* up to MaxCalls parse_acpi calls, one after another, on unchanged memory
RepeatSpec == RepeatInit /\ [][RepeatNext]_vars

(* ------------------------------ properties ----------------------------- *)

\* the call has returned
Returned == pc = "done"

\* the log entries of one kind, and their number
Indices(op) == {i \in 1..Len(log) : log[i].op = op}
Count(op) == Cardinality(Indices(op))

\* the handler operations of the call, reads left out
HandlerOps == SelectSeq(log, LAMBDA e : e.op \in {"map", "unmap"})

\* a revision-0 RSDP as section 3 describes a well-formed one
WellFormedRev0(r) ==
    /\ r.signature = RSDP_SIGNATURE
    /\ OemIdValid(r.oem_id)
    /\ r.revision = 0
    /\ ByteSum(RsdpBytes(r), RsdpV1Size) = 0

\* the root table the RSDP names: the XSDT for revision >= 2 when it is set, else the RSDT
RootTableAddress(r) ==
    IF r.revision >= 2 /\ r.xsdt_address # 0 THEN r.xsdt_address ELSE r.rsdt_address

\* the index of the first failed validation in the log, 0 when there is none
FirstFailure ==
    LET failed == {i \in Indices("validate") : log[i].outcome # "Ok"}
    IN  IF failed = {} THEN 0 ELSE CHOOSE i \in failed : \A j \in failed : i <= j

\* the windows open after the first k log entries, oldest first
RECURSIVE OpenAfter(_)
OpenAfter(k) ==
    IF k = 0 THEN <<>>
    ELSE LET before == OpenAfter(k - 1)
             e      == log[k]
         IN  IF e.op = "map" THEN Append(before, e.virtual_start)
             ELSE IF e.op = "unmap"
                 THEN SelectSeq(before, LAMBDA v : v # e.virtual_start)
             ELSE before

\* the windows unmapped after log entry k, in the order of the calls
UnmappedAfter(k) ==
    LET later == SubSeq(log, k + 1, Len(log))
        un    == SelectSeq(later, LAMBDA e : e.op = "unmap")
    IN  [i \in 1..Len(un) |-> un[i].virtual_start]

Reverse(seq) == [i \in 1..Len(seq) |-> seq[Len(seq) + 1 - i]]

\* C1: when a parse_acpi call has returned, with Ok(()) or with Err(e), it has made
\* as many unmap_physical_region calls as map_physical_region calls.
C1_MappingBalanced == Returned => Count("unmap") = Count("map")

\* C2: when the structure at rsdp_address has a signature other than "RSD PTR ",
\* the call returns Err(RsdpIncorrectSignature) having made exactly two handler
\* calls: one map, then the unmap of that same mapping.
C2_BadSignatureMapsAndReleasesOnce ==
    (Returned /\ memory.signature # RSDP_SIGNATURE) =>
        /\ result = "RsdpIncorrectSignature"
        /\ Len(HandlerOps) = 2
        /\ HandlerOps[1].op = "map"
        /\ HandlerOps[2].op = "unmap"
        /\ HandlerOps[2].virtual_start = HandlerOps[1].virtual_start

\* C3: a call that found a well-formed revision-0 RSDP at rsdp_address returns
\* Ok(()), never an Err.
C3_WellFormedRev0ReturnsOk ==
    (Returned /\ WellFormedRev0(memory)) => result = "Ok"

C3_Witness ==
    /\ Returned
    /\ WellFormedRev0(memory)
    /\ rsdp_address # RSDP_ADDRESS
    /\ result = "Ok"

\* C4: when a call has returned Ok(()), the root table the RSDP names has been
\* mapped by that call and unmapped again.
C4_OkMeansRootTableMapped ==
    (Returned /\ result = "Ok") =>
        \E i \in Indices("map"), k \in Indices("unmap") :
            /\ i < k
            /\ log[i].physical_start = RootTableAddress(memory)
            /\ log[k].virtual_start = log[i].virtual_start

\* C6: when a call has returned Err(e), the windows that were open when the
\* validation failed have all been unmapped since, newest first.
C6_FailureReleasesInReverse ==
    (Returned /\ result \in AcpiError) =>
        /\ FirstFailure # 0
        /\ UnmappedAfter(FirstFailure) = Reverse(OpenAfter(FirstFailure))

\* C7: a failed validation is the last thing a call does: it is the last entry of
\* the log (no map, unmap or validation follows it), the call has returned, and
\* the value returned is the Err of that validation.
C7_FirstErrorReturnedAndWalkAborted ==
    \A i \in Indices("validate") :
        log[i].outcome # "Ok" =>
            /\ i = Len(log)
            /\ Returned
            /\ result = log[i].outcome

C7_Witness ==
    /\ Returned
    /\ result = "RsdpInvalidChecksum"
    /\ Len(log) = 2
    /\ log[2].op = "validate"
    /\ log[2].outcome = "RsdpInvalidChecksum"

\* C8: every read of the mapped RSDP happens while its window is live: after the
\* map call that returned it, and with no unmap of it before the read.
C8_NoReadAfterUnmap ==
    \A i \in Indices("validate") :
        /\ log[i].live
        /\ \E j \in Indices("map") : j < i /\ log[j].virtual_start = log[i].virtual_start
        /\ \A k \in Indices("unmap") : log[k].virtual_start = log[i].virtual_start => i < k

C8_Witness ==
    /\ Returned
    /\ \E i \in Indices("validate"), k \in Indices("unmap") :
        log[k].virtual_start = log[i].virtual_start /\ i < k

\* C9: every mapping handed to unmap_physical_region was returned by an earlier
\* map_physical_region call of the same parse_acpi call, for the same physical
\* address, is live in the handler, and has not been unmapped before.
C9_UnmapOnlyOwnLiveMappings ==
    \A i \in Indices("unmap") :
        /\ log[i].live
        /\ \E j \in Indices("map") :
            /\ j < i
            /\ log[j].virtual_start = log[i].virtual_start
            /\ log[j].physical_start = log[i].physical_start
        /\ \A k \in Indices("unmap") : log[k].virtual_start = log[i].virtual_start => k = i

C9_Witness ==
    /\ pc = "return_ok"
    /\ Count("unmap") = 1
    /\ Count("map") = 1
    /\ log[Len(log)].op = "unmap"
    /\ log[Len(log)].virtual_start \notin handler.live

\* C10: every parse_acpi call that has started returns, and with a value that is
\* Ok(()) or Err(e) for one AcpiError e.
C10_EveryCallReturns ==
    (pc \notin {"idle", "done"}) ~> (Returned /\ result \in Results)

C10_Witness ==
    /\ Returned
    /\ calls = MaxCalls
    /\ result \in Results

\* the positions among the first 20 bytes, the checksum byte left out, at which
\* r differs from a well-formed revision-0 structure that is equal to it
\* everywhere else
ChangedPositions(r) ==
    LET b == RsdpBytes(r)
        Differing(w) == LET c == RsdpBytes(w) IN {q \in 1..RsdpSize : b[q] # c[q]}
        single == UNION {Differing(w) :
                           w \in {x \in WellFormedRev0Rsdps : Cardinality(Differing(x)) = 1}}
    IN  single \cap ((1..RsdpV1Size) \ {ChecksumPosition})

\* C11 as stated: a call on a well-formed revision-0 RSDP with one byte of the
\* first 20 (not the checksum byte) changed returns Err(RsdpInvalidChecksum).
C11_ChangedByteFailsChecksum ==
    (Returned /\ ChangedPositions(memory) # {}) => result = "RsdpInvalidChecksum"

\* C11, amended: such a call returns an Err: RsdpIncorrectSignature when the
\* changed byte is one of the 8 signature bytes, RsdpInvalidOemId when it is an
\* OEM id byte and the changed OEM id is not acceptable, and RsdpInvalidChecksum
\* in every other case.
C11_ChangedByteFails ==
    \A p \in ChangedPositions(memory) :
        Returned =>
            result = IF p \in 1..8 THEN "RsdpIncorrectSignature"
                     ELSE IF p \in 10..15 /\ ~OemIdValid(memory.oem_id)
                         THEN "RsdpInvalidOemId"
                     ELSE "RsdpInvalidChecksum"

C11_Witness ==
    /\ Returned
    /\ 17 \in ChangedPositions(memory)
    /\ result = "RsdpInvalidChecksum"

\* an RSDP of revision >= 2 as section 3 describes a well-formed one
WellFormedRev2(r) ==
    /\ r.signature = RSDP_SIGNATURE
    /\ OemIdValid(r.oem_id)
    /\ r.revision >= 2
    /\ ByteSum(RsdpBytes(r), RsdpV1Size) = 0
    /\ ByteSum(RsdpBytes(r), RsdpSize) = 0

\* the structure a logged read saw through its mapping
SeenBy(e) == RsdpFromBytes(RsdpBytes(PhysicalMemory(e.physical_start, rsdp_address, memory)))

LiveOwn(a) ==
    {log[i].virtual_start : i \in {j \in Indices("map") : log[j].physical_start = a}}
        \cap handler.live

\* C13: at every point of a call, each physical region has at most one live
\* mapping created by that call, and a region is mapped again only after the
\* earlier mapping of it was unmapped.
C13_OneLiveMappingPerRegion ==
    /\ \A a \in {log[i].physical_start : i \in 1..Len(log)} : Cardinality(LiveOwn(a)) <= 1
    /\ \A i, j \in Indices("map") :
        (i < j /\ log[i].physical_start = log[j].physical_start) =>
            \E k \in Indices("unmap") :
                i < k /\ k < j /\ log[k].virtual_start = log[i].virtual_start

C13_Witness ==
    /\ pc = "validate"
    /\ LiveOwn(rsdp_address) = {rsdp_mapping.virtual_start}
    /\ Cardinality(handler.live) = 2

\* C14: the first thing a call does with the handler or the mapped memory is
\* map_physical_region at rsdp_address (nothing is validated before it), and
\* the mapping later handed to unmap_physical_region is the one that call
\* returned, with the same physical_start.
C14_FirstOpMapsRsdpAddress ==
    /\ pc \notin {"idle", "map_rsdp"} => log # <<>>
    /\ log # <<>> =>
        /\ log[1].op = "map"
        /\ log[1].physical_start = rsdp_address
        /\ \A k \in Indices("unmap") :
            /\ log[k].virtual_start = log[1].virtual_start
            /\ log[k].physical_start = rsdp_address

C14_Witness ==
    /\ pc = "return_ok"
    /\ rsdp_address # RSDP_ADDRESS
    /\ log[1].op = "map"
    /\ log[Len(log)].op = "unmap"
    /\ log[Len(log)].physical_start = log[1].physical_start

\* the map and unmap calls among log entries lo .. hi: which operation, on which
\* physical address (the windows are fresh ones each time)
OpsBetween(lo, hi) ==
    LET ops == SelectSeq(SubSeq(log, lo, hi), LAMBDA e : e.op \in {"map", "unmap"})
    IN  [i \in 1..Len(ops) |-> <<ops[i].op, ops[i].physical_start>>]

\* the log index before the first entry of the call that returned at entry m
CallStart(m) ==
    LET earlier == {k \in Indices("return") : k < m}
    IN  IF earlier = {} THEN 0 ELSE CHOOSE k \in earlier : \A j \in earlier : j <= k

\* C15: when a call has returned, every earlier call on the same handler with
\* the same rsdp_address and the same memory contents returned the same value
\* and made the same sequence of map_physical_region / unmap_physical_region
\* calls, however many calls came before.
C15_SameInputsSameResultAndOps ==
    Returned =>
        \A m \in Indices("return") :
            log[m].physical_start = rsdp_address =>
                /\ log[m].outcome = result
                /\ OpsBetween(CallStart(m) + 1, m - 1)
                       = OpsBetween(CallStart(Len(log) + 1) + 1, Len(log))

C15_Witness ==
    /\ Returned
    /\ calls >= 2
    /\ result \in AcpiError
    /\ Cardinality(handler.live) >= 2
    /\ \E m \in Indices("return") :
        /\ log[m].physical_start = rsdp_address
        /\ log[m].outcome = result

====
